---- MODULE Spec2Model ----
(***************************************************************************)
(* State-machine model of the 3d-printed microscope control code:          *)
(*   microscope/arduino_stage.py  - class Stage (tracked position, bounds,  *)
(*                                  axis remap, serial commands)            *)
(*   microscope/microscope_3d.py  - class Microscope (centre_on_template)   *)
(* The code is Python 2 (print statements), so "/" on integers is floor     *)
(* division.  One API call of the single-threaded program is one action,    *)
(* except centre_on_template, whose loop is stepped query by query because  *)
(* every locator answer is an input.                                        *)
(***************************************************************************)
EXTENDS Integers, Sequences, FiniteSets, TLC

VARIABLES
    pos,        \* Stage._pos: tracked position, a 3-vector of microsteps
    power,      \* motor magnets as left by the commands the stage received
    wire,       \* commands handed to Stage._query by the call in progress / last call
    call,       \* the call in progress / last call: name, arguments, outcome
    overridden, \* history: some call so far was made with override=True
    nops,       \* history: number of API calls made so far
    m,          \* what the module-level name m is bound to (microscope_3d.py:311)
    other_wire, \* commands the stage of another Microscope received during the call
    pc,         \* centre_on_template: "idle", "loop" (at the while test), "done"
    tolerance,          \* centre_on_template argument
    max_iterations,     \* centre_on_template argument
    release_at_end,     \* centre_on_template argument release
    iteration,          \* centre_on_template local; the returned number once done
    camera_move,        \* centre_on_template local: pixels still to move
    camera_positions,   \* centre_on_template local: log of measured positions
    stage_moves,        \* centre_on_template local: log of stage moves
    gui_running,        \* run_gui is in its loop, waiting in cv2.waitKey
    tracking_bar,       \* position of the 'Tracking' trackbar (0 or 1)
    gui_tracking,       \* Microscope._gui_tracking
    gui_sel,            \* Microscope._gui_sel: <<x1, y1, x2, y2>>, or <<>> for None
    gui_drag_start,     \* Microscope._gui_drag_start: <<x, y>>, or <<>> for None
    gui_pause_img,      \* Microscope._gui_pause_img: "frame", or "None"
    template_selection, \* Microscope.template_selection: its <<w, h>>, or <<>> for None
    gui_bead_pos,       \* Microscope._gui_bead_pos: <<x, y>>, or <<>> for None
    cal_pc,             \* calibrate: "idle", "visit" (at the for), "done", "raised"
    cal_D,              \* calibrate argument D
    init_cam_pos,       \* calibrate local: camera position at the reference
    init_stage_vector,  \* calibrate local: stage position at the reference
    camera_displacement,\* calibrate local: list of camera displacements
    stage_displacement, \* calibrate local: list of stage displacements (x, y)
    cal_log,            \* history: move_to_pos calls and locator queries of calibrate
    cal_A,              \* the matrix calibrate fits, as exact fractions num/den
    true_A              \* the matrix synthetic samples were made with, or <<>>

stage_vars == <<pos, power, wire, call, overridden, nops>>

servo_vars == <<pc, tolerance, max_iterations, release_at_end, iteration,
                camera_move, camera_positions, stage_moves>>

gui_vars == <<gui_running, tracking_bar, gui_tracking, gui_sel, gui_drag_start,
              gui_pause_img, template_selection, gui_bead_pos>>

cal_vars == <<cal_pc, cal_D, init_cam_pos, init_stage_vector, camera_displacement,
              stage_displacement, cal_log, cal_A, true_A>>

vars == <<pos, power, wire, call, overridden, nops, m, other_wire, pc, tolerance,
          max_iterations, release_at_end, iteration, camera_move, camera_positions,
          stage_moves, gui_running, tracking_bar, gui_tracking, gui_sel,
          gui_drag_start, gui_pause_img, template_selection, gui_bead_pos,
          cal_pc, cal_D, init_cam_pos, init_stage_vector, camera_displacement,
          stage_displacement, cal_log, cal_A, true_A>>

----------------------------------------------------------------------------
(* Program constants *)

XYZ_BOUND == 5000

MICROSTEPS == 16

\* Microscope.__init__ defaults: the camera resolution
WIDTH == 640

HEIGHT == 480

\* Microscope._UM_PER_PIXEL = 0.4846, as a fraction
UM_PER_PIXEL_NUM == 4846

UM_PER_PIXEL_DEN == 10000

\* Microscope._ARROW_STEP_SIZE
ARROW_STEP_SIZE == 32

(* Bounds of the model *)

MaxOps == 2

MaxIter == 2

----------------------------------------------------------------------------
(* Inputs *)

\* Displacements and targets handed to the stage; the last one is malformed.
Vectors ==
    { <<5000, 0, 0>>, <<1, 0, 0>>, <<17, -17, 16>>, <<0, -5001, 0>>, <<1, 0>> }

FocusSteps == { -5000, 16, 5001 }

\* Template positions the locator may report (pixels): 2, 4 and 8 pixels left of
\* the centre of the image.
Positions == { <<318, 240>>, <<316, 240>>, <<312, 240>> }

\* An answer of camera.find_template: a position, or RuntimeError raised because
\* the search window would exceed the image.
Located(p) == [raised |-> FALSE, at |-> p]

WindowExceeds == [raised |-> TRUE, at |-> <<0, 0>>]

LocatorAnswers == { Located(p) : p \in Positions } \cup { WindowExceeds }

Tolerances == { 1, 2 }

\* Where the mouse may be when an event of the preview window arrives.
Pixels == { <<100, 100>>, <<160, 140>> }

MouseEvents == { "EVENT_LBUTTONDOWN", "EVENT_LBUTTONUP", "EVENT_MOUSEMOVE" }

\* The flags of a mouse event: the left button is held, or nothing is.
MouseFlags == { "EVENT_FLAG_LBUTTON", "none" }

\* What cv2.waitKey may return: no key (-1), or a key.
Keys == { "none", "q", "s", "i", "SPACE", "RIGHT", "LEFT", "UP", "DOWN" }

\* What the module-level name m may be bound to when a method of some Microscope
\* runs: nothing (the module was imported), this Microscope (the file was run as a
\* script and the method is called on m), or another Microscope.
GlobalBindings == { "unbound", "self", "other" }

----------------------------------------------------------------------------
(* Helpers on vectors *)

Abs(n) == IF n < 0 THEN -n ELSE n

Add(a, b) == [i \in 1..3 |-> a[i] + b[i]]

Sub(a, b) == [i \in 1..3 |-> a[i] - b[i]]

Neg(a) == [i \in 1..3 |-> -a[i]]

Origin == <<0, 0, 0>>

\* Slips of the bounds test: np.less instead of np.less_equal; np.any instead of
\* np.all.
InBoundsStrict(p) == \A i \in 1..3 : Abs(p[i]) < XYZ_BOUND

InBoundsAny(p) == \E i \in 1..3 : Abs(p[i]) <= XYZ_BOUND

\* np.all(np.less_equal(np.absolute(new_pos), self._XYZ_BOUND))
InBounds(p) == \A i \in 1..3 : Abs(p[i]) <= XYZ_BOUND

\* Slip in the remap: the y component is lost, x is sent twice.
motor_coord_dup(x, y, z) == <<-z, -x, -x>>

\* Stage._motor_coord: (x, y, z) -> (-z, -x, -y)
motor_coord(x, y, z) == <<-z, -x, -y>>

\* r[i] / self._MICROSTEPS on numpy integers under Python 2: floor division
whole_steps(n) == n \div MICROSTEPS

----------------------------------------------------------------------------
(* Commands on the wire: "move_rel X Y Z\n", "fast_move X Y Z\n", "release\n". *)
(* The arguments are integers written with %d, so a command is its name and   *)
(* its three integers.                                                        *)

Cmd(op, args) == [op |-> op, args |-> args]

ReleaseCmd == Cmd("release", <<>>)

\* The magnets after the stage received the commands cmds, in order.
PowerAfter(pw, cmds) ==
    IF cmds = <<>> THEN pw
    ELSE IF cmds[Len(cmds)].op = "release" THEN "released" ELSE "energized"

----------------------------------------------------------------------------
(* The Stage methods as functions of the tracked position and the arguments. *)
(* Each yields: the new position, the commands sent, the local variable ret, *)
(* the value handed back to the caller, and the exception raised (if any).   *)

Outcome(p, sent, ret, returned, raised) ==
    [pos |-> p, sent |-> sent, ret |-> ret, returned |-> returned, raised |-> raised]

\* Slip: release without the command.
release_silent(p) == Outcome(p, <<>>, "unset", "None", "none")

\* Stage.release
release(p) == Outcome(p, <<ReleaseCmd>>, "ack", "None", "none")

\* Slips of move_rel: the release flag is not looked at; the position is stored
\* outside the bounds test; a short vector is padded with zeros instead of refused.
move_rel_always_release(p, vector, rel, override) ==
    IF Len(vector) # 3
    THEN Outcome(p, <<>>, "unset", "None", "AssertionError")
    ELSE LET new_pos == Add(p, vector) IN
         IF InBounds(new_pos) \/ override
         THEN Outcome(new_pos,
                      <<Cmd("move_rel", motor_coord(vector[1], vector[2], vector[3])),
                        ReleaseCmd>>,
                      "ack", "None", "none")
         ELSE Outcome(p, <<>>, "bounds_error", "None", "none")

move_rel_moves_anyway(p, vector, rel, override) ==
    IF Len(vector) # 3
    THEN Outcome(p, <<>>, "unset", "None", "AssertionError")
    ELSE LET new_pos == Add(p, vector) IN
         IF InBounds(new_pos) \/ override
         THEN Outcome(new_pos,
                      <<Cmd("move_rel", motor_coord(vector[1], vector[2], vector[3]))>>
                          \o (IF rel THEN <<ReleaseCmd>> ELSE <<>>),
                      "ack", "None", "none")
         ELSE Outcome(new_pos, <<>>, "bounds_error", "None", "none")

move_rel_padded(p, vector, rel, override) ==
    LET r == [i \in 1..3 |-> IF i <= Len(vector) THEN vector[i] ELSE 0]
        new_pos == Add(p, r)
    IN  IF InBounds(new_pos) \/ override
        THEN Outcome(new_pos,
                     <<Cmd("move_rel", motor_coord(r[1], r[2], r[3]))>>
                         \o (IF rel THEN <<ReleaseCmd>> ELSE <<>>),
                     "ack", "None", "none")
        ELSE Outcome(p, <<>>, "bounds_error", "None", "none")

\* Stage.move_rel
move_rel(p, vector, rel, override) ==
    IF Len(vector) # 3
    THEN Outcome(p, <<>>, "unset", "None", "AssertionError")
    ELSE LET new_pos == Add(p, vector) IN
         IF InBounds(new_pos) \/ override
         THEN Outcome(new_pos,
                      <<Cmd("move_rel", motor_coord(vector[1], vector[2], vector[3]))>>
                          \o (IF rel THEN release(new_pos).sent ELSE <<>>),
                      "ack", "None", "none")
         ELSE Outcome(p, <<>>, "bounds_error", "None", "none")

\* Stage.fast_move
fast_move(p, vector, rel, override) ==
    IF Len(vector) # 3
    THEN Outcome(p, <<>>, "unset", "None", "AssertionError")
    ELSE LET new_pos == Add(p, vector) IN
         IF InBounds(new_pos) \/ override
         THEN Outcome(new_pos,
                      <<Cmd("fast_move", motor_coord(whole_steps(vector[1]),
                                                     whole_steps(vector[2]),
                                                     whole_steps(vector[3])))>>
                          \o (IF rel THEN release(new_pos).sent ELSE <<>>),
                      "ack", "None", "none")
         ELSE Outcome(p, <<>>, "bounds_error", "None", "none")

\* Slip: the target is handed on as if it were the displacement.
move_to_pos_no_sub(p, vector, rel, override) ==
    IF Len(vector) # 3
    THEN Outcome(p, <<>>, "unset", "None", "AssertionError")
    ELSE move_rel(p, vector, rel, override)

\* Stage.move_to_pos
move_to_pos(p, vector, rel, override) ==
    IF Len(vector) # 3
    THEN Outcome(p, <<>>, "unset", "None", "AssertionError")
    ELSE move_rel(p, Sub(vector, p), rel, override)

\* Stage.focus_rel
focus_rel(p, z, rel) == move_rel(p, <<0, 0, z>>, rel, FALSE)

\* Slip: the whole-step move that line 110 has commented out.
centre_stage_fast(p) == fast_move(p, Neg(p), TRUE, FALSE)

\* Stage.centre_stage
centre_stage(p) == move_rel(p, Neg(p), TRUE, FALSE)

\* Stage._reset_pos
reset_pos(p) == Outcome(Origin, <<>>, "unset", "None", "none")

----------------------------------------------------------------------------
(* Microscope: the helpers of centre_on_template *)

\* np.trunc of the fraction n/d (d > 0): rounds toward zero
trunc_div(n, d) == IF n >= 0 THEN n \div d ELSE -((-n) \div d)

\* Microscope._camera_centre_move, after find_template answered template_pos:
\* the move in pixels, (0,0) being the top left corner of the image.
camera_centre_move(template_pos) ==
    <<-(template_pos[1] - (WIDTH \div 2)), -(template_pos[2] - (HEIGHT \div 2))>>

\* The two assertions of Microscope._camera_centre_move
camera_move_ok(cm) ==
    /\ cm[1] >= -(WIDTH \div 2) /\ cm[1] <= WIDTH \div 2
    /\ cm[2] >= -(HEIGHT \div 2) /\ cm[2] <= HEIGHT \div 2

\* self._camera_move_distance(camera_move) > tolerance, for tolerance >= 0:
\* sqrt(x^2 + y^2) * 0.4846 > tolerance, squared and cleared of fractions
too_far(cm, tol) ==
    (cm[1] * cm[1] + cm[2] * cm[2]) * UM_PER_PIXEL_NUM * UM_PER_PIXEL_NUM
        > tol * tol * UM_PER_PIXEL_DEN * UM_PER_PIXEL_DEN

\* np.trunc(np.append(np.dot(camera_move, _CAMERA_TO_STAGE_MATRIX), [0])), the
\* matrix being [[5.2, 7.0], [6.3, -5.6]], in tenths.  (np.append(..., axis=1) on a
\* 1-d array is taken as the numpy of the code's date takes it: the 0 is appended.)
\* For the offsets of Positions the floating point results are not within rounding
\* of an integer, so the exact fractions truncate to the same microsteps.
stage_move_for(cm) ==
    << trunc_div(52 * cm[1] + 63 * cm[2], 10),
       trunc_div(70 * cm[1] - 56 * cm[2], 10),
       0 >>

\* Line 228: the log of camera positions starts with the first measurement.
\* Slip: it starts empty, like the log of stage moves.
first_positions_empty(position) == <<>>

first_positions(position) == <<position>>

\* Slip in the while test: one pass too many.
loop_test_inclusive(cm, tol, it, max_it) == too_far(cm, tol) /\ it <= max_it

\* Slip: the corrective move made with move_rel's default, release=True.
servo_move_released(p, stage_move) == move_rel(p, stage_move, TRUE, FALSE)

\* Line 235: self.stage.move_rel(stage_move, release=False)
servo_move(p, stage_move) == move_rel(p, stage_move, FALSE, FALSE)

\* The while test of centre_on_template
loop_test(cm, tol, it, max_it) == too_far(cm, tol) /\ it < max_it

\* iteration as returned: negated when it equals max_iterations
returned_iteration(it, max_it) == IF it = max_it THEN -1 * it ELSE it

----------------------------------------------------------------------------
(* Initial state: Stage.__init__ *)

NoCall == [op |-> "none", vector |-> <<>>, release |-> TRUE, override |-> FALSE,
           before |-> Origin, ret |-> "unset", returned |-> "None", raised |-> "none"]

\* No centre_on_template frame exists: its arguments and locals have no value.
ServoIdle ==
    /\ pc = "idle"
    /\ tolerance = 0
    /\ max_iterations = 0
    /\ release_at_end = FALSE
    /\ iteration = 0
    /\ camera_move = <<0, 0>>
    /\ camera_positions = <<>>
    /\ stage_moves = <<>>

\* The frame of centre_on_template is gone once another call is made.
ServoDiscard ==
    /\ pc' = "idle"
    /\ tolerance' = 0
    /\ max_iterations' = 0
    /\ release_at_end' = FALSE
    /\ iteration' = 0
    /\ camera_move' = <<0, 0>>
    /\ camera_positions' = <<>>
    /\ stage_moves' = <<>>

\* No matrix has been fitted.
NoMatrix == [num |-> <<>>, den |-> 0]

\* No calibrate frame exists.
CalIdle ==
    /\ cal_pc = "idle"
    /\ cal_D = 0
    /\ init_cam_pos = <<>>
    /\ init_stage_vector = <<>>
    /\ camera_displacement = <<>>
    /\ stage_displacement = <<>>
    /\ cal_log = <<>>
    /\ cal_A = NoMatrix
    /\ true_A = <<>>

\* The frame of calibrate is gone once another call is made.
CalDiscard ==
    /\ cal_pc' = "idle"
    /\ cal_D' = 0
    /\ init_cam_pos' = <<>>
    /\ init_stage_vector' = <<>>
    /\ camera_displacement' = <<>>
    /\ stage_displacement' = <<>>
    /\ cal_log' = <<>>
    /\ cal_A' = NoMatrix
    /\ true_A' = <<>>

\* The state after Stage.__init__ and Microscope.__init__, calibrate aside.
InitInstrument ==
    /\ pos = Origin
    /\ power = "released"
    /\ wire = <<>>
    /\ call = NoCall
    /\ overridden = FALSE
    /\ nops = 0
    /\ m \in GlobalBindings
    /\ other_wire = <<>>
    /\ ServoIdle
    /\ gui_running = FALSE
    /\ tracking_bar = 0
    /\ gui_tracking = FALSE
    /\ gui_sel = <<>>
    /\ gui_drag_start = <<>>
    /\ gui_pause_img = "None"
    /\ template_selection = <<>>
    /\ gui_bead_pos = <<>>

Init ==
    /\ InitInstrument
    /\ CalIdle

----------------------------------------------------------------------------
(* One API call on the stage, made by the caller with the given arguments.  *)

StageCall(op, vector, rel, override, out) ==
    /\ nops < MaxOps
    /\ pc # "loop"
    /\ ~gui_running
    /\ cal_pc # "visit"
    /\ ServoDiscard
    /\ CalDiscard
    /\ UNCHANGED <<m, gui_vars>>
    /\ other_wire' = <<>>
    /\ pos' = out.pos
    /\ wire' = out.sent
    /\ power' = PowerAfter(power, out.sent)
    /\ call' = [op |-> op, vector |-> vector, release |-> rel, override |-> override,
                before |-> pos, ret |-> out.ret, returned |-> out.returned,
                raised |-> out.raised]
    /\ overridden' = (overridden \/ override)
    /\ nops' = nops + 1

MoveRel ==
    \E v \in Vectors, rel \in BOOLEAN, ov \in BOOLEAN :
        StageCall("move_rel", v, rel, ov, move_rel(pos, v, rel, ov))

FastMove ==
    \E v \in Vectors, rel \in BOOLEAN, ov \in BOOLEAN :
        StageCall("fast_move", v, rel, ov, fast_move(pos, v, rel, ov))

MoveToPos ==
    \E v \in Vectors, rel \in BOOLEAN, ov \in BOOLEAN :
        StageCall("move_to_pos", v, rel, ov, move_to_pos(pos, v, rel, ov))

FocusRel ==
    \E z \in FocusSteps, rel \in BOOLEAN :
        StageCall("focus_rel", <<0, 0, z>>, rel, FALSE, focus_rel(pos, z, rel))

CentreStage ==
    StageCall("centre_stage", Neg(pos), TRUE, FALSE, centre_stage(pos))

Release ==
    StageCall("release", <<>>, TRUE, FALSE, release(pos))

ResetPos ==
    StageCall("_reset_pos", <<>>, TRUE, FALSE, reset_pos(pos))

----------------------------------------------------------------------------
(* Microscope.centre_on_template(template, tolerance, max_iterations, release) *)

ServoCall(rel, before, raised) ==
    [op |-> "centre_on_template", vector |-> <<>>, release |-> rel,
     override |-> FALSE, before |-> before, ret |-> "unset", returned |-> "None",
     raised |-> raised]

\* Lines 225-229: the locals are set up and the locator is asked once.
ServoStart ==
    \E tol \in Tolerances, max_it \in 0..MaxIter, rel \in BOOLEAN, ans \in LocatorAnswers :
        /\ nops < MaxOps
        /\ pc # "loop"
        /\ ~gui_running
        /\ nops' = nops + 1
        /\ tolerance' = tol
        /\ max_iterations' = max_it
        /\ release_at_end' = rel
        /\ iteration' = 0
        /\ stage_moves' = <<>>
        /\ wire' = <<>>
        /\ other_wire' = <<>>
        /\ IF ans.raised
           THEN /\ pc' = "done"
                /\ camera_move' = <<0, 0>>
                /\ camera_positions' = <<>>
                /\ call' = ServoCall(rel, pos, "RuntimeError")
           ELSE IF ~camera_move_ok(camera_centre_move(ans.at))
           THEN /\ pc' = "done"
                /\ camera_move' = <<0, 0>>
                /\ camera_positions' = <<>>
                /\ call' = ServoCall(rel, pos, "AssertionError")
           ELSE /\ pc' = "loop"
                /\ camera_move' = camera_centre_move(ans.at)
                /\ camera_positions' = first_positions(ans.at)
                /\ call' = ServoCall(rel, pos, "none")
        /\ CalDiscard
        /\ UNCHANGED <<pos, power, overridden, m, gui_vars>>

\* Lines 230-239: one pass of the loop body, the locator's next answer included.
ServoIterate ==
    \E ans \in LocatorAnswers :
        /\ pc = "loop"
        /\ loop_test(camera_move, tolerance, iteration, max_iterations)
        /\ LET stage_move == stage_move_for(camera_move)
               out == servo_move(pos, stage_move)
           IN  /\ iteration' = iteration + 1
               /\ pos' = out.pos
               /\ wire' = wire \o out.sent
               /\ power' = PowerAfter(power, out.sent)
               /\ stage_moves' = Append(stage_moves, stage_move)
        /\ IF ans.raised
           THEN /\ pc' = "done"
                /\ call' = ServoCall(release_at_end, call.before, "RuntimeError")
                /\ UNCHANGED <<camera_move, camera_positions>>
           ELSE IF ~camera_move_ok(camera_centre_move(ans.at))
           THEN /\ pc' = "done"
                /\ call' = ServoCall(release_at_end, call.before, "AssertionError")
                /\ UNCHANGED <<camera_move, camera_positions>>
           ELSE /\ pc' = "loop"
                /\ camera_move' = camera_centre_move(ans.at)
                /\ camera_positions' = Append(camera_positions, ans.at)
                /\ UNCHANGED call
        /\ UNCHANGED <<overridden, nops, m, other_wire, tolerance, max_iterations,
                       release_at_end, gui_vars, cal_vars>>

\* Lines 240-245: the loop is left; release through the global name m, then the
\* sign of iteration, then the return.
ServoFinish ==
    /\ pc = "loop"
    /\ ~loop_test(camera_move, tolerance, iteration, max_iterations)
    /\ pc' = "done"
    /\ IF release_at_end /\ m = "unbound"
       THEN /\ call' = ServoCall(release_at_end, call.before, "NameError")
            /\ UNCHANGED <<iteration, wire, other_wire, power>>
       ELSE /\ iteration' = returned_iteration(iteration, max_iterations)
            /\ wire' = IF release_at_end /\ m = "self"
                       THEN wire \o release(pos).sent ELSE wire
            /\ power' = IF release_at_end /\ m = "self"
                        THEN PowerAfter(power, release(pos).sent) ELSE power
            /\ other_wire' = IF release_at_end /\ m = "other"
                             THEN other_wire \o release(pos).sent ELSE other_wire
            /\ UNCHANGED call
    /\ UNCHANGED <<pos, overridden, nops, m, tolerance, max_iterations, release_at_end,
                   camera_move, camera_positions, stage_moves, gui_vars, cal_vars>>

----------------------------------------------------------------------------
(* Microscope: the GUI.  run_gui loops over _read_gui_trackbars and _update_gui; *)
(* the mouse callback and the trackbars are served inside cv2.waitKey, so the    *)
(* model rests at waitKey: an action is a callback, or the passage from one      *)
(* waitKey to the next.                                                          *)

Min(a, b) == IF a <= b THEN a ELSE b

Max(a, b) == IF a >= b THEN a ELSE b

\* The box spanned by the start of the drag and the mouse (lines 181 and 191)
drag_box(start, x, y) ==
    << Min(start[1], x), Min(start[2], y), Max(start[1], x), Max(start[2], y) >>

\* Microscope._read_gui_trackbars: the value of _gui_tracking
read_tracking(bar, sel, drag_start) == bar = 1 /\ sel # <<>> /\ drag_start = <<>>

\* Lines 167-169: the selection box around the tracked centre
tracked_box(centre, w, h) ==
    << centre[1] - (w \div 2), centre[2] - (h \div 2),
       centre[1] + (w \div 2), centre[2] + (h \div 2) >>

\* Microscope._stop_gui_tracking
StopGuiTracking ==
    /\ gui_sel' = <<>>
    /\ gui_drag_start' = <<>>
    /\ template_selection' = <<>>
    /\ tracking_bar' = 0
    /\ gui_tracking' = FALSE
    /\ gui_bead_pos' = <<>>

\* _read_gui_trackbars, then _update_gui up to its waitKey: the frame is taken and
\* the tracker runs, starting from the selection state sel / drag / tpl / bead
\* that the key processing left.
GuiToNextWait(bar, sel, drag, tpl, bead, ans) ==
    IF ~read_tracking(bar, sel, drag)
    THEN /\ gui_tracking' = FALSE
         /\ tracking_bar' = bar
         /\ gui_sel' = sel
         /\ gui_drag_start' = drag
         /\ template_selection' = tpl
         /\ gui_bead_pos' = bead
    ELSE IF ans.raised
    THEN StopGuiTracking
    ELSE /\ gui_tracking' = TRUE
         /\ tracking_bar' = bar
         /\ gui_drag_start' = drag
         /\ template_selection' = tpl
         /\ gui_bead_pos' = ans.at
         /\ gui_sel' = tracked_box(ans.at, tpl[1], tpl[2])

\* run_gui is called: _create_gui, then the first pass up to waitKey.  _create_gui
\* sets the 'Tracking' trackbar to 0, so the tracker does not run in that pass and
\* the locator is not asked (the answer handed to GuiToNextWait is not read).
RunGui ==
    /\ nops < MaxOps
    /\ pc # "loop"
    /\ ~gui_running
    /\ gui_running' = TRUE
    /\ nops' = nops + 1
    /\ call' = [NoCall EXCEPT !.op = "run_gui", !.before = pos]
    /\ wire' = <<>>
    /\ other_wire' = <<>>
    /\ ServoDiscard
    /\ GuiToNextWait(0, gui_sel, gui_drag_start, template_selection, gui_bead_pos,
                     WindowExceeds)
    /\ CalDiscard
    /\ UNCHANGED <<pos, power, overridden, m, gui_pause_img>>

\* Microscope._on_gui_mouse
OnGuiMouse ==
    \E event \in MouseEvents, xy \in Pixels, flags \in MouseFlags :
        /\ gui_running
        /\ IF event = "EVENT_LBUTTONDOWN" /\ gui_sel = <<>>
           THEN /\ gui_pause_img' = "frame"
                /\ gui_drag_start' = xy
                /\ gui_sel' = <<xy[1], xy[2], xy[1], xy[2]>>
                /\ UNCHANGED <<template_selection, gui_bead_pos>>
           ELSE IF event = "EVENT_LBUTTONUP" /\ gui_drag_start # <<>>
           THEN LET sel == drag_box(gui_drag_start, xy[1], xy[2]) IN
                /\ gui_sel' = sel
                /\ template_selection' = <<sel[3] - sel[1], sel[4] - sel[2]>>
                /\ gui_bead_pos' = <<(sel[1] + sel[3]) \div 2, (sel[2] + sel[4]) \div 2>>
                /\ gui_pause_img' = "None"
                /\ gui_drag_start' = <<>>
           ELSE IF /\ event = "EVENT_MOUSEMOVE"
                   /\ gui_drag_start # <<>>
                   /\ flags = "EVENT_FLAG_LBUTTON"
           THEN /\ gui_sel' = drag_box(gui_drag_start, xy[1], xy[2])
                /\ UNCHANGED <<gui_drag_start, gui_pause_img, template_selection,
                               gui_bead_pos>>
           ELSE UNCHANGED <<gui_sel, gui_drag_start, gui_pause_img, template_selection,
                            gui_bead_pos>>
        /\ UNCHANGED <<cal_vars, stage_vars, m, other_wire, servo_vars, gui_running,
                       tracking_bar, gui_tracking>>

\* The user drags the 'Tracking' trackbar.
SetTrackbar ==
    \E v \in {0, 1} :
        /\ gui_running
        /\ tracking_bar # v
        /\ tracking_bar' = v
        /\ UNCHANGED <<cal_vars, stage_vars, m, other_wire, servo_vars, gui_running,
                       gui_tracking, gui_sel, gui_drag_start, gui_pause_img,
                       template_selection, gui_bead_pos>>

\* The displacement an arrow key asks for (lines 135-142)
arrow_vector(key) ==
    CASE key = "RIGHT" -> <<ARROW_STEP_SIZE, 0, 0>>
      [] key = "LEFT"  -> <<-ARROW_STEP_SIZE, 0, 0>>
      [] key = "UP"    -> <<0, ARROW_STEP_SIZE, 0>>
      [] key = "DOWN"  -> <<0, -ARROW_STEP_SIZE, 0>>

\* The stage is moved from within run_gui: an arrow key, or centre_stage on quit.
GuiStageCall(op, vector, out) ==
    /\ nops < MaxOps
    /\ nops' = nops + 1
    /\ pos' = out.pos
    /\ wire' = out.sent
    /\ power' = PowerAfter(power, out.sent)
    /\ call' = [op |-> op, vector |-> vector, release |-> TRUE, override |-> FALSE,
                before |-> pos, ret |-> out.ret, returned |-> out.returned,
                raised |-> out.raised]
    /\ UNCHANGED overridden

\* cv2.waitKey returns key: the rest of _update_gui, then either the end of run_gui
\* or the next pass up to waitKey, in which the locator answers ans if tracking.
GuiLoop ==
    \E key \in Keys, ans \in LocatorAnswers :
        /\ gui_running
        /\ UNCHANGED <<m, other_wire, servo_vars, gui_pause_img, cal_vars>>
        /\ \/ /\ key = "q"
              /\ GuiStageCall("centre_stage", Neg(pos), centre_stage(pos))
              /\ gui_running' = FALSE
              /\ UNCHANGED <<tracking_bar, gui_tracking, gui_sel, gui_drag_start,
                             template_selection, gui_bead_pos>>
           \/ /\ key = "SPACE"
              /\ GuiToNextWait(0, <<>>, <<>>, <<>>, <<>>, ans)
              /\ UNCHANGED <<stage_vars, gui_running>>
           \/ /\ key \in {"RIGHT", "LEFT", "UP", "DOWN"}
              /\ GuiStageCall("move_rel", arrow_vector(key),
                              move_rel(pos, arrow_vector(key), TRUE, FALSE))
              /\ GuiToNextWait(tracking_bar, gui_sel, gui_drag_start,
                               template_selection, gui_bead_pos, ans)
              /\ UNCHANGED gui_running
           \/ /\ key \in {"none", "s", "i"}
              /\ GuiToNextWait(tracking_bar, gui_sel, gui_drag_start,
                               template_selection, gui_bead_pos, ans)
              /\ UNCHANGED <<stage_vars, gui_running>>

----------------------------------------------------------------------------
(* Microscope.calibrate(template, D).  The routine stops at each locator      *)
(* query; what happens between two queries is one step.  The template (given  *)
(* or cropped from the frame, lines 276-279) is opaque and has no state here. *)

\* Values of D: the default, one whose approach to (-D,-D) is out of bounds while
\* the waypoints are not, and one whose waypoints are all out of bounds.
HalfWidths == {128, 4990, 5001}

\* What find_template(template, boxD=-1, decimal=True) may answer.
CalPositions == { <<320, 240>>, <<321, 241>> }

CalAnswers == { Located(p) : p \in CalPositions } \cup { WindowExceeds }

\* Line 269 (commented out): the waypoints in their earlier order.
waypoints_earlier(D) == << <<-D, D, 0>>, <<D, D, 0>>, <<D, -D, 0>>, <<-D, -D, 0>> >>

\* Line 270: pos = [(D, D, 0), (D, -D, 0), (-D, -D, 0), (-D, D, 0)]
waypoints(D) == << <<D, D, 0>>, <<D, -D, 0>>, <<-D, -D, 0>>, <<-D, D, 0>> >>

\* Line 274: where the stage goes before it goes to the neutral position [0, 0, 0]
neutral_approach == <<16, 16, 0>>

\* Line 288: what is added to a waypoint for the move made before the exact one
backlash_offset == <<-32, -16, 0>>

\* Slip: the stage is released where it stands.
cal_return_stay(p) == release(p)

\* Lines 296-297: self.stage.centre_stage(); self.stage.release()
cal_return(p) ==
    LET c == centre_stage(p)
        r == release(c.pos)
    IN  [r EXCEPT !.sent = c.sent \o r.sent]

\* Slip: the exact target first, the approach point second.
two_step_reversed(p, approach, target) ==
    LET o1 == move_to_pos(p, target, FALSE, FALSE)
        o2 == move_to_pos(o1.pos, approach, FALSE, FALSE)
    IN  [pos  |-> o2.pos,
         sent |-> o1.sent \o o2.sent,
         log  |-> << [kind |-> "move_to_pos", target |-> target, reached |-> o1.pos],
                     [kind |-> "move_to_pos", target |-> approach, reached |-> o2.pos],
                     [kind |-> "find_template", target |-> <<>>, reached |-> o2.pos] >>]

\* Two move_to_pos calls, release=False: to the approach point, then to the target.
two_step(p, approach, target) ==
    LET o1 == move_to_pos(p, approach, FALSE, FALSE)
        o2 == move_to_pos(o1.pos, target, FALSE, FALSE)
    IN  [pos  |-> o2.pos,
         sent |-> o1.sent \o o2.sent,
         log  |-> << [kind |-> "move_to_pos", target |-> approach, reached |-> o1.pos],
                     [kind |-> "move_to_pos", target |-> target, reached |-> o2.pos],
                     [kind |-> "find_template", target |-> <<>>, reached |-> o2.pos] >>]

RECURSIVE SumColumn(_, _)
SumColumn(rows, j) ==
    IF rows = <<>> THEN 0 ELSE Head(rows)[j] + SumColumn(Tail(rows), j)

\* Slip: the mean taken along each row (axis=1) instead of down each column.
mean_centred_rows(C) ==
    [i \in 1..Len(C) |-> << (Len(C) * (C[i][1] - C[i][2])) \div 2,
                            (Len(C) * (C[i][2] - C[i][1])) \div 2 >>]

\* Line 300: camera_displacement -= np.mean(camera_displacement, axis=0).
\* The result is held multiplied by the number of rows, which keeps it integer.
mean_centred(C) ==
    [i \in 1..Len(C) |-> << Len(C) * C[i][1] - SumColumn(C, 1),
                            Len(C) * C[i][2] - SumColumn(C, 2) >>]

RECURSIVE SumProducts(_, _, _, _)
SumProducts(C, i, S, j) ==
    IF C = <<>> THEN 0
    ELSE Head(C)[i] * Head(S)[j] + SumProducts(Tail(C), i, Tail(S), j)

\* transpose(C) . S, a 2x2 matrix
Gram(C, S) == [i \in 1..2 |-> [j \in 1..2 |-> SumProducts(C, i, S, j)]]

\* np.linalg.lstsq(C, S) for C = Cn / n: the least-squares solution of C.A = S of
\* least norm, in exact fractions.  Rank 2: A = inverse(C'C).C'S.  Rank 1: the
\* pseudo-inverse of C is C' / trace(C'C).  Rank 0: A = 0.
lstsq(Cn, n, S) ==
    LET N   == Gram(Cn, Cn)
        B   == Gram(Cn, S)
        det == N[1][1] * N[2][2] - N[1][2] * N[2][1]
        tr  == N[1][1] + N[2][2]
    IN  IF det # 0
        THEN [num |-> << << n * (N[2][2] * B[1][1] - N[1][2] * B[2][1]),
                            n * (N[2][2] * B[1][2] - N[1][2] * B[2][2]) >>,
                         << n * (N[1][1] * B[2][1] - N[2][1] * B[1][1]),
                            n * (N[1][1] * B[2][2] - N[2][1] * B[1][2]) >> >>,
              den |-> det]
        ELSE IF tr # 0
        THEN [num |-> << << n * B[1][1], n * B[1][2] >>,
                         << n * B[2][1], n * B[2][2] >> >>,
              den |-> tr]
        ELSE [num |-> << <<0, 0>>, <<0, 0>> >>, den |-> 1]

\* Lines 298-304: the camera displacements are mean-centred, the stage
\* displacements are used as they are, and the matrix is fitted.
estimate(C, S) == lstsq(mean_centred(C), Len(C), S)

CalCall(before, raised) ==
    [NoCall EXCEPT !.op = "calibrate", !.release = FALSE, !.before = before,
                   !.raised = raised]

\* Lines 268-284: the neutral position is approached and taken, the locator is
\* asked, and the reference is recorded.
CalStart ==
    \E D \in HalfWidths, ans \in CalAnswers :
        /\ nops < MaxOps
        /\ pc # "loop"
        /\ ~gui_running
        /\ cal_pc # "visit"
        /\ ServoDiscard
        /\ nops' = nops + 1
        /\ other_wire' = <<>>
        /\ LET out == two_step(pos, neutral_approach, Origin)
           IN  /\ pos' = out.pos
               /\ wire' = out.sent
               /\ power' = PowerAfter(power, out.sent)
               /\ cal_log' = out.log
               /\ cal_D' = D
               /\ camera_displacement' = <<>>
               /\ stage_displacement' = <<>>
               /\ cal_A' = NoMatrix
               /\ IF ans.raised
                  THEN /\ cal_pc' = "raised"
                       /\ call' = CalCall(pos, "RuntimeError")
                       /\ init_cam_pos' = <<>>
                       /\ init_stage_vector' = <<>>
                  ELSE /\ cal_pc' = "visit"
                       /\ call' = CalCall(pos, "none")
                       /\ init_cam_pos' = ans.at
                       /\ init_stage_vector' = out.pos
        /\ UNCHANGED <<overridden, m, gui_vars, true_A>>

\* Lines 287-295: one pass of the for loop.
CalVisit ==
    \E ans \in CalAnswers :
        /\ cal_pc = "visit"
        /\ Len(camera_displacement) < Len(waypoints(cal_D))
        /\ LET p      == waypoints(cal_D)[Len(camera_displacement) + 1]
               target == Add(init_stage_vector, p)
               out    == two_step(pos, Add(target, backlash_offset), target)
           IN  /\ pos' = out.pos
               /\ wire' = wire \o out.sent
               /\ power' = PowerAfter(power, out.sent)
               /\ cal_log' = cal_log \o out.log
               /\ IF ans.raised
                  THEN /\ cal_pc' = "raised"
                       /\ call' = CalCall(call.before, "RuntimeError")
                       /\ UNCHANGED <<camera_displacement, stage_displacement>>
                  ELSE /\ camera_displacement' =
                              Append(camera_displacement,
                                     << ans.at[1] - init_cam_pos[1],
                                        ans.at[2] - init_cam_pos[2] >>)
                       /\ stage_displacement' =
                              Append(stage_displacement,
                                     << out.pos[1] - init_stage_vector[1],
                                        out.pos[2] - init_stage_vector[2] >>)
                       /\ UNCHANGED <<cal_pc, call>>
        /\ UNCHANGED <<overridden, nops, m, other_wire, servo_vars, gui_vars, cal_D,
                       init_cam_pos, init_stage_vector, cal_A, true_A>>

\* Lines 296-308: back to the centre, release, fit, return A.
CalFinish ==
    /\ cal_pc = "visit"
    /\ Len(camera_displacement) = Len(waypoints(cal_D))
    /\ LET out == cal_return(pos)
       IN  /\ pos' = out.pos
           /\ wire' = wire \o out.sent
           /\ power' = PowerAfter(power, out.sent)
    /\ cal_A' = estimate(camera_displacement, stage_displacement)
    /\ cal_pc' = "done"
    /\ call' = [call EXCEPT !.returned = "A"]
    /\ UNCHANGED <<overridden, nops, m, other_wire, servo_vars, gui_vars, cal_D,
                   init_cam_pos, init_stage_vector, camera_displacement,
                   stage_displacement, cal_log, true_A>>

----------------------------------------------------------------------------
(* The fit of lines 298-304 by itself, on synthetic samples.                  *)

CameraSamples == { <<0, 0>>, <<1, 0>>, <<0, 1>>, <<2, 1>>, <<-1, -1>> }

Matrices == { << <<5, 7>>, <<6, -5>> >>, << <<1, 0>>, <<0, 1>> >>,
              << <<1, 2>>, <<2, 4>> >> }

\* The row vector c times the 2x2 matrix A
RowTimes(c, A) == << c[1] * A[1][1] + c[2] * A[2][1], c[1] * A[1][2] + c[2] * A[2][2] >>

\* Four camera displacements, and the stage displacements a matrix makes of them.
EstimatorInit ==
    /\ InitInstrument
    /\ cal_pc = "samples"
    /\ cal_D = 0
    /\ init_cam_pos = <<>>
    /\ init_stage_vector = <<>>
    /\ cal_log = <<>>
    /\ cal_A = NoMatrix
    /\ true_A \in Matrices
    /\ camera_displacement \in [1..4 -> CameraSamples]
    /\ stage_displacement = [i \in 1..4 |-> RowTimes(camera_displacement[i], true_A)]

Estimate ==
    /\ cal_pc = "samples"
    /\ cal_A' = estimate(camera_displacement, stage_displacement)
    /\ cal_pc' = "done"
    /\ UNCHANGED <<stage_vars, m, other_wire, servo_vars, gui_vars, cal_D,
                   init_cam_pos, init_stage_vector, camera_displacement,
                   stage_displacement, cal_log, true_A>>

----------------------------------------------------------------------------
(* Specifications *)

Next ==
    \/ ServoStart
    \/ ServoIterate
    \/ ServoFinish
    \/ MoveRel
    \/ FastMove
    \/ MoveToPos
    \/ FocusRel
    \/ CentreStage
    \/ Release
    \/ ResetPos

Spec == Init /\ [][Next]_vars

\* centre_on_template by itself, called again and again.  A call runs to its end:
\* the program is one thread, and a pass of the loop or the code after it is
\* never held up by anything else.
ServoNext ==
    \/ ServoStart
    \/ ServoIterate
    \/ ServoFinish

ServoSpec ==
    Init /\ [][ServoNext]_vars /\ WF_vars(ServoIterate) /\ WF_vars(ServoFinish)

\* The program with its GUI: run_gui, the events served while it runs, and
\* centre_on_template called once run_gui has returned.
GuiNext ==
    \/ RunGui
    \/ OnGuiMouse
    \/ SetTrackbar
    \/ GuiLoop
    \/ ServoStart
    \/ ServoIterate
    \/ ServoFinish

GuiSpec == Init /\ [][GuiNext]_vars

\* The stage moved by hand, then calibrate.
CalNext ==
    \/ MoveRel
    \/ CalStart
    \/ CalVisit
    \/ CalFinish

CalSpec == Init /\ [][CalNext]_vars

\* The fit on every choice of four samples and matrix.
EstimatorNext == Estimate

EstimatorSpec == EstimatorInit /\ [][EstimatorNext]_vars

----------------------------------------------------------------------------
(* Properties *)

Last(seq) == seq[Len(seq)]

\* The position p is within the travel of the stage: -B <= p[i] <= B on every axis.
WithinTravel(p) ==
    /\ -XYZ_BOUND <= p[1] /\ p[1] <= XYZ_BOUND
    /\ -XYZ_BOUND <= p[2] /\ p[2] <= XYZ_BOUND
    /\ -XYZ_BOUND <= p[3] /\ p[3] <= XYZ_BOUND

IsMove(c) == c.op # "release"

\* The last call was op, with a well-formed vector the bounds test lets through.
Accepted(op) ==
    /\ call.op = op
    /\ Len(call.vector) = 3
    /\ (WithinTravel(Add(call.before, call.vector)) \/ call.override)

\* The last call was op, with a well-formed vector the bounds test refuses.
Refused(op) ==
    /\ call.op = op
    /\ Len(call.vector) = 3
    /\ ~WithinTravel(Add(call.before, call.vector))
    /\ ~call.override

\* centre_on_template has returned a value to its caller.
ServoReturned == pc = "done" /\ call.raised = "none"

\* The loop of centre_on_template was left with the template within tolerance.
Converged == ~too_far(camera_move, tolerance)

\* C1: a move_rel whose target is within the bounds, or that overrides them, sends
\* exactly one move_rel command, carrying (-v.z, -v.x, -v.y), and leaves the tracked
\* position at exactly pos + v.
C1_MoveRelMoves ==
    Accepted("move_rel") =>
        /\ pos = Add(call.before, call.vector)
        /\ Len(SelectSeq(wire, IsMove)) = 1
        /\ wire[1] = Cmd("move_rel",
                         <<-call.vector[3], -call.vector[1], -call.vector[2]>>)

C1_Witness ==
    /\ Accepted("move_rel")
    /\ call.before = Origin
    /\ call.vector = <<5000, 0, 0>>
    /\ ~call.override
    /\ pos = <<5000, 0, 0>>

\* C2: a move_rel whose target is outside the bounds, without override, leaves the
\* tracked position unchanged, sends nothing, and hands a bounds violation back to
\* its caller.
C2_RefusedMoveReported ==
    Refused("move_rel") =>
        /\ pos = call.before
        /\ wire = <<>>
        /\ call.returned = "bounds_error"

\* C3: as long as no call has set override, every component of the tracked position
\* is within [-XYZ_BOUND, XYZ_BOUND].
C3_BoundedWithoutOverride == ~overridden => WithinTravel(pos)

C3_Witness ==
    /\ ~overridden
    /\ Refused("move_rel")
    /\ pos = <<5000, 0, 0>>

\* C4: an accepted fast_move sends a fast_move command whose step counts are the
\* components of v divided by 16 and truncated toward zero, and moves the tracked
\* position by the whole of v.
C4_FastMoveTruncates ==
    Accepted("fast_move") =>
        /\ pos = Add(call.before, call.vector)
        /\ wire[1] = Cmd("fast_move",
                         motor_coord(trunc_div(call.vector[1], MICROSTEPS),
                                     trunc_div(call.vector[2], MICROSTEPS),
                                     trunc_div(call.vector[3], MICROSTEPS)))

\* Every measured offset is half of the one before it.
Halving ==
    \A i \in 1..(Len(camera_positions) - 1) :
        /\ 2 * camera_centre_move(camera_positions[i + 1])[1]
               = camera_centre_move(camera_positions[i])[1]
        /\ 2 * camera_centre_move(camera_positions[i + 1])[2]
               = camera_centre_move(camera_positions[i])[2]

\* C5: when centre_on_template returns because the offset came within tolerance
\* after at least one corrective move of a run whose offset halved on every move,
\* the returned iteration is positive and is the number of moves commanded.
C5_ConvergedIterationPositive ==
    (ServoReturned /\ Converged /\ Halving /\ Len(stage_moves) >= 1) =>
        /\ iteration > 0
        /\ iteration = Len(stage_moves)

FixedFar ==
    /\ camera_positions # <<>>
    /\ \A i \in 1..Len(camera_positions) : camera_positions[i] = camera_positions[1]
    /\ too_far(camera_centre_move(camera_positions[1]), tolerance)

QueryFailed ==
    /\ call.op = "centre_on_template"
    /\ pc = "done"
    /\ Len(camera_positions) # Len(stage_moves) + 1

\* C8: when the locator reports at some query of a centre_on_template run that the
\* search window would exceed the image, the run ends there, no exception reaches
\* the caller, and the template / selection state is discarded.
C8_LocatorFailureRecovered ==
    QueryFailed =>
        /\ call.raised = "none"
        /\ template_selection = <<>>
        /\ gui_sel = <<>>
        /\ gui_bead_pos = <<>>

\* C9: when centre_on_template is called with release=True and reaches its end, the
\* call returns and the last command its own stage received is a release, so the
\* magnets are off.
C9_ReleasedAtEnd ==
    (pc = "done" /\ release_at_end /\ call.raised \notin {"RuntimeError", "AssertionError"}) =>
        /\ call.raised = "none"
        /\ wire # <<>>
        /\ Last(wire) = ReleaseCmd
        /\ power = "released"

\* C10: centre_stage from any tracked position p, also one outside the bounds,
\* sends the move_rel command of the displacement -p (then a release) and leaves
\* the tracked position at the origin.
C10_CentreStageToOrigin ==
    call.op = "centre_stage" =>
        /\ pos = Origin
        /\ call.raised = "none"
        /\ wire = << Cmd("move_rel", << call.before[3], call.before[1], call.before[2] >>),
                     ReleaseCmd >>

C10_Witness ==
    /\ call.op = "centre_stage"
    /\ ~WithinTravel(call.before)
    /\ pos = Origin

\* C11: move_to_pos(target) does what move_rel(target - pos) does with the same
\* release and override flags: if the target is within the bounds or override is
\* set, the tracked position becomes the target (one move_rel command carrying the
\* remapped target - pos, and a release unless held); otherwise the position is
\* unchanged and nothing is sent.
C11_MoveToPosDelegates ==
    (call.op = "move_to_pos" /\ Len(call.vector) = 3) =>
        IF WithinTravel(call.vector) \/ call.override
        THEN /\ pos = call.vector
             /\ wire = << Cmd("move_rel", << -(call.vector[3] - call.before[3]),
                                             -(call.vector[1] - call.before[1]),
                                             -(call.vector[2] - call.before[2]) >>) >>
                       \o (IF call.release THEN <<ReleaseCmd>> ELSE <<>>)
        ELSE /\ pos = call.before
             /\ wire = <<>>

C11_Witness ==
    /\ call.op = "move_to_pos"
    /\ call.before = <<1, 0, 0>>
    /\ call.vector = <<17, -17, 16>>
    /\ pos = <<17, -17, 16>>

\* C14: after an accepted move_rel or fast_move the release command follows the
\* move command at once and the magnets are off, unless the caller asked to hold:
\* then the call sends the move command alone and the magnets stay on; and they go
\* off again only through a release command.
C14_State ==
    \A op \in {"move_rel", "fast_move"} :
        Accepted(op) =>
            /\ wire # <<>>
            /\ wire[1].op = op
            /\ IF call.release
               THEN /\ Len(wire) = 2
                    /\ wire[2] = ReleaseCmd
                    /\ power = "released"
               ELSE /\ Len(wire) = 1
                    /\ power = "energized"

C14_Step ==
    (power = "energized" /\ power' = "released") =>
        (wire' # <<>> /\ Last(wire') = ReleaseCmd)

C14_ReleasedUnlessHeld == [](C14_State) /\ [][C14_Step]_vars

C14_Witness ==
    /\ Accepted("fast_move")
    /\ ~call.release
    /\ power = "energized"
    /\ Len(wire) = 1

\* The step sent a move command to the stage.
MoveSentInStep ==
    \E i \in 1..Len(wire') :
        /\ IsMove(wire'[i])
        /\ (pc = "loop" => i > Len(wire))

\* C15 as stated: the tracked position changes only in a step that sends a move
\* command (a successful move); every other operation leaves it unchanged.
C15_OnlyMovesChangePosition == [][pos' # pos => MoveSentInStep]_vars

\* C15 as amended: the tracked position changes only in a step that sends a move
\* command, or through _reset_pos, which sets it to the origin and sends nothing.
C15_OnlyMovesOrReset ==
    [][pos' # pos =>
         \/ MoveSentInStep
         \/ (call'.op = "_reset_pos" /\ pos' = Origin /\ wire' = <<>>)]_vars

C15_Witness ==
    /\ call.op = "_reset_pos"
    /\ call.before # Origin
    /\ pos = Origin

\* C16: release sends the release command and leaves the magnets off and the
\* position alone; a second release right after the first leaves position and
\* magnets as the first left them.
C16_State ==
    call.op = "release" =>
        /\ wire = <<ReleaseCmd>>
        /\ power = "released"
        /\ pos = call.before

C16_Step ==
    (call.op = "release" /\ call'.op = "release") =>
        (pos' = pos /\ power' = power)

C16_ReleaseIdempotent == [](C16_State) /\ [][C16_Step]_vars

C16_Witness ==
    /\ call.op = "release"
    /\ nops = 2
    /\ pos # Origin
    /\ power = "released"

\* C17: move_rel, fast_move and move_to_pos refuse a vector that does not have
\* exactly 3 components: the call fails, nothing is sent, the position is unchanged.
C17_MalformedRefused ==
    (call.op \in {"move_rel", "fast_move", "move_to_pos"} /\ Len(call.vector) # 3) =>
        /\ call.raised = "AssertionError"
        /\ wire = <<>>
        /\ pos = call.before

C17_Witness ==
    /\ call.op = "move_to_pos"
    /\ call.vector = <<1, 0>>
    /\ call.override
    /\ call.raised = "AssertionError"
    /\ pos = <<5000, 0, 0>>

\* The inverse of the remap: (a, b, c) -> (-b, -c, -a)
RemapInverse(c) == << -c[2], -c[3], -c[1] >>

RemapSamples ==
    { v \in Vectors : Len(v) = 3 }
        \cup { <<0, 0, 0>>, <<1, 2, 3>>, <<-1, 2, 3>>, <<3, 1, 2>>, <<2, 3, 1>>,
               <<-5000, 5000, 1>> }

\* C18: the remap followed by its inverse gives the vector back, distinct vectors
\* give distinct commands, and the arguments of a move_rel command on the wire
\* decode to the vector the caller gave.
C18_RemapInvertible ==
    /\ \A v \in RemapSamples : RemapInverse(motor_coord(v[1], v[2], v[3])) = v
    /\ \A v, w \in RemapSamples :
           motor_coord(v[1], v[2], v[3]) = motor_coord(w[1], w[2], w[3]) => v = w
    /\ Accepted("move_rel") => RemapInverse(wire[1].args) = call.vector

C18_Witness ==
    /\ Accepted("move_rel")
    /\ call.vector = <<17, -17, 16>>
    /\ wire[1].args = <<-16, -17, 17>>

\* C20: while centre_on_template is in its loop, every command the run has sent is
\* a move_rel command (none is a release), the magnets are on once a move was
\* sent, and a position that was within the bounds at the call is still within them.
C20_ServoHoldsAndStaysInBounds ==
    (call.op = "centre_on_template" /\ pc = "loop") =>
        /\ \A i \in 1..Len(wire) : wire[i].op = "move_rel"
        /\ Len(wire) <= iteration
        /\ (wire # <<>> => power = "energized")
        /\ (WithinTravel(call.before) => WithinTravel(pos))

C20_Witness ==
    /\ call.op = "centre_on_template"
    /\ pc = "loop"
    /\ iteration = 2
    /\ Len(wire) = 2
    /\ power = "energized"

\* The k-th corner of the square of half width D, in the order the claim gives.
Corner(k, D) ==
    CASE k = 1 -> <<D, D, 0>>
      [] k = 2 -> <<D, -D, 0>>
      [] k = 3 -> <<-D, -D, 0>>
      [] k = 4 -> <<-D, D, 0>>

CalibrateEntered == cal_pc \in {"visit", "done", "raised"}

\* C12: the positioning calls of calibrate(D) come in groups of two move_to_pos
\* calls and then one locator query: group 0 goes to the neutral position, groups
\* 1..4 to reference + (D,D,0), (D,-D,0), (-D,-D,0), (-D,D,0) in this order; the
\* first call of a group names the target displaced by a fixed offset, the second
\* the exact target; a call whose target is within the bounds leaves the stage on
\* it; and a calibrate that returns has made all five groups.
C12_WaypointsTwoStep ==
    CalibrateEntered =>
        /\ Len(cal_log) % 3 = 0
        /\ \A k \in 0..((Len(cal_log) \div 3) - 1) :
               LET first  == cal_log[3 * k + 1]
                   second == cal_log[3 * k + 2]
                   query  == cal_log[3 * k + 3]
                   target == IF k = 0 THEN <<0, 0, 0>>
                             ELSE Add(init_stage_vector, Corner(k, cal_D))
                   offset == IF k = 0 THEN <<16, 16, 0>> ELSE <<-32, -16, 0>>
               IN  /\ first.kind = "move_to_pos"
                   /\ first.target = Add(target, offset)
                   /\ WithinTravel(first.target) => first.reached = first.target
                   /\ second.kind = "move_to_pos"
                   /\ second.target = target
                   /\ WithinTravel(second.target) => second.reached = second.target
                   /\ query.kind = "find_template"
        /\ cal_pc = "done" => Len(cal_log) = 15

C12_Witness ==
    /\ cal_pc = "done"
    /\ cal_D = 128
    /\ Len(cal_log) = 15
    /\ cal_log[5].reached = <<128, 128, 0>>
    /\ cal_log[13].reached = <<-160, 112, 0>>
    /\ cal_log[14].reached = <<-128, 128, 0>>

\* C13: when calibrate returns, the tracked position is the reference position it
\* recorded, the last command it sent is a release, and the magnets are off.
C13_BackAtReferenceReleased ==
    cal_pc = "done" =>
        /\ pos = init_stage_vector
        /\ wire # <<>>
        /\ Last(wire) = ReleaseCmd
        /\ power = "released"

C13_Witness ==
    /\ cal_pc = "done"
    /\ call.before = <<0, -5001, 0>>
    /\ cal_D = 4990
    /\ pos = <<0, 0, 0>>

\* The fitted matrix, a matrix of fractions, equals the integer matrix A.
SameMatrix(fitted, A) ==
    /\ fitted.den # 0
    /\ \A i \in 1..2, j \in 1..2 : fitted.num[i][j] = fitted.den * A[i][j]

\* The camera displacements do not all lie on one straight line.
Spanning(C) ==
    \E i \in 1..Len(C), j \in 1..Len(C), k \in 1..Len(C) :
        (C[j][1] - C[i][1]) * (C[k][2] - C[i][2])
            # (C[j][2] - C[i][2]) * (C[k][1] - C[i][1])

FittedFromSamples == cal_pc = "done" /\ true_A # <<>>

\* C19 as stated: from four samples with stage_i = camera_i . A0 the fit returns A0.
C19_RecoversA0 == FittedFromSamples => SameMatrix(cal_A, true_A)

\* C19 as amended: from four samples with stage_i = camera_i . A0 whose camera
\* displacements do not all lie on one straight line, the fit returns A0.
C19_RecoversA0WhenSpanning ==
    (FittedFromSamples /\ Spanning(camera_displacement)) => SameMatrix(cal_A, true_A)

C19_Witness ==
    /\ FittedFromSamples
    /\ camera_displacement = << <<1, 0>>, <<0, 1>>, <<2, 1>>, <<1, 0>> >>
    /\ true_A = << <<5, 7>>, <<6, -5>> >>
    /\ SameMatrix(cal_A, true_A)

\* Locator queries centre_on_template has made: the logged positions, and the one
\* query that ended the call, if one did.
QueriesMade ==
    Len(camera_positions)
        + (IF call.raised \in {"RuntimeError", "AssertionError"} THEN 1 ELSE 0)

\* C21: a run of centre_on_template never makes more than max_iterations
\* corrective moves nor more than max_iterations + 1 locator queries, each pass of
\* the loop counts one up, and a run that is in its loop leaves it.
C21_Budget ==
    call.op = "centre_on_template" =>
        /\ Len(stage_moves) <= max_iterations
        /\ Len(wire) <= max_iterations + (IF pc = "done" /\ release_at_end THEN 1 ELSE 0)
        /\ QueriesMade <= max_iterations + 1

C21_Step ==
    (pc = "loop" /\ pc' = "loop") =>
        (Len(stage_moves') = Len(stage_moves) + 1 /\ Len(stage_moves') <= max_iterations)

C21_Terminates ==
    /\ [](C21_Budget)
    /\ [][C21_Step]_vars
    /\ (pc = "loop") ~> (pc = "done")

C21_Witness ==
    /\ ServoReturned
    /\ max_iterations = 2
    /\ Len(stage_moves) = 2
    /\ QueriesMade = 3
    /\ iteration = -2

RECURSIVE SumOfMoves(_)
SumOfMoves(moves) ==
    IF moves = <<>> THEN <<0, 0, 0>>
    ELSE LET rest == SumOfMoves(Tail(moves))
         IN  << Head(moves)[1] + rest[1], Head(moves)[2] + rest[2],
                Head(moves)[3] + rest[3] >>

\* C22: when centre_on_template returns, the logged stage moves add up to the
\* change of the tracked position over the run.
C22_LoggedMovesWereIssued ==
    ServoReturned =>
        SumOfMoves(stage_moves)
            = << pos[1] - call.before[1], pos[2] - call.before[2],
                 pos[3] - call.before[3] >>

\* The i-th sample of calibrate has the i-th corner as its stage displacement and
\* was measured with the stage on reference + that corner.
SampleAtCorner(i) ==
    /\ stage_displacement[i] = << Corner(i, cal_D)[1], Corner(i, cal_D)[2] >>
    /\ cal_log[3 * i + 3].kind = "find_template"
    /\ cal_log[3 * i + 3].reached = Add(init_stage_vector, Corner(i, cal_D))

\* C23 as stated: for every D, every sample calibrate has recorded has the corner
\* (+D,+D), (+D,-D), (-D,-D), (-D,+D) of its turn as stage displacement, measured
\* with the stage on reference + that corner.
C23_SamplesAtCorners ==
    CalibrateEntered => \A i \in 1..Len(stage_displacement) : SampleAtCorner(i)

\* C23 as amended: the same for every D whose four corners, taken from the
\* reference, are within the travel bounds.
C23_SamplesAtCornersInTravel ==
    (CalibrateEntered /\ init_stage_vector # <<>>
        /\ \A k \in 1..4 : WithinTravel(Add(init_stage_vector, Corner(k, cal_D)))) =>
            \A i \in 1..Len(stage_displacement) : SampleAtCorner(i)

C23_Witness ==
    /\ cal_pc = "done"
    /\ cal_D = 4990
    /\ stage_displacement = << <<4990, 4990>>, <<4990, -4990>>, <<-4990, -4990>>,
                               <<-4990, 4990>> >>
    /\ cal_log[9].reached = <<4990, -4990, 0>>
    /\ cal_log[7].reached = <<4990, 4990, 0>>

\* C24: in the GUI, whenever no drag is in progress (_gui_drag_start is None) the
\* preview is not paused (_gui_pause_img is None).
C24_NoDragNoPause ==
    gui_drag_start = <<>> => gui_pause_img = "None"

====
